---- MODULE Spec2Model ----
(***************************************************************************)
(* A model of the food-recognition API: the helpers of data.py             *)
(* (convert_weight_to_grams, filter_food, generate_combinations,           *)
(* fetch_nutritions, safe_convert) and the Flask handlers of main.py.      *)
(*                                                                         *)
(* Python values are tagged records:                                      *)
(*   [t |-> "none"]                      None / an absent JSON field       *)
(*   [t |-> "str", s |-> <<chars>>]      a str, as its sequence of chars   *)
(*   [t |-> "num", m |-> i, e |-> k]     the number i * 10^k               *)
(*   [t |-> "tuple", items |-> <<..>>]   a tuple                           *)
(*   [t |-> "exc", type |-> T, msg |-> M] a raised exception               *)
(* The one-character string "mu" stands for the micro sign.                *)
(* Floats are modelled as exact decimals m * 10^e; the arithmetic the     *)
(* handlers do (scaling by powers of ten, products of short decimals) is  *)
(* exact in that representation.                                           *)
(***************************************************************************)
EXTENDS Integers, Sequences, FiniteSets, TLC

VARIABLES
    weight, grams,                      \* convert_weight_to_grams: argument, outcome
    df, ceilings, filtered, refiltered, \* filter_food: table, ceilings, result, result filtered again
    food_df, num_combinations, items_per_combination, combinations, \* generate_combinations
    max_vals,                           \* main.py: max_calories, max_protein, max_fat, max_carbs
    endpoint, request, calls, response, \* the request being answered, the collaborators' outcomes, the answer
    client                              \* the last /diabetes_predict answer the caller holds

convVars == <<weight, grams>>
filterVars == <<df, ceilings, filtered, refiltered>>
genVars == <<food_df, num_combinations, items_per_combination, combinations>>
httpVars == <<max_vals, endpoint, request, calls, response, client>>
vars == <<weight, grams, df, ceilings, filtered, refiltered, food_df, num_combinations,
          items_per_combination, combinations, max_vals, endpoint, request, calls,
          response, client>>

----------------------------------------------------------------------------
(* Bounds *)

MaxLen == 4
MaxRows == 2
MaxCombos == 2
MaxItems == 2
ProbWindow == 6

----------------------------------------------------------------------------
(* Python values *)

None == [t |-> "none"]
Str(s) == [t |-> "str", s |-> s]
Num(m, e) == [t |-> "num", m |-> m, e |-> e]
Tuple(items) == [t |-> "tuple", items |-> items]
Exc(type, msg) == [t |-> "exc", type |-> type, msg |-> msg]

RECURSIVE Norm(_)
\* the canonical form of a decimal: no trailing zero in the mantissa
Norm(n) ==
    IF n.m = 0 THEN Num(0, 0)
    ELSE IF n.m % 10 = 0 THEN Norm(Num(n.m \div 10, n.e + 1))
    ELSE n

RECURSIVE Pow10(_)
Pow10(k) == IF k <= 0 THEN 1 ELSE 10 * Pow10(k - 1)

\* n to two decimals, a tie to the even neighbour (n >= 0)
Round2(n) ==
    IF n.e >= 0 - 2 THEN Norm(n)
    ELSE LET d == Pow10(0 - 2 - n.e)
             q == n.m \div d
             r == n.m % d
         IN  Norm(Num(IF 2 * r < d THEN q ELSE IF 2 * r > d THEN q + 1
                      ELSE IF q % 2 = 0 THEN q ELSE q + 1, 0 - 2))

\* a * b and a < b on decimals
NumMul(a, b) == Norm(Num(a.m * b.m, a.e + b.e))
NumLess(a, b) ==
    LET lo == IF a.e < b.e THEN a.e ELSE b.e
    IN  a.m * Pow10(a.e - lo) < b.m * Pow10(b.e - lo)

----------------------------------------------------------------------------
(* str methods *)

Digits == {"0", "1", "2"}
DigitVal(c) == IF c = "1" THEN 1 ELSE IF c = "2" THEN 2 ELSE 0

UpperCase == <<"A", "B", "C", "D", "E", "F", "G", "H", "I", "J", "K", "L", "M", "N", "O", "P", "Q", "R", "S", "T", "U", "V", "W", "X", "Y", "Z">>
LowerCase == <<"a", "b", "c", "d", "e", "f", "g", "h", "i", "j", "k", "l", "m", "n", "o", "p", "q", "r", "s", "t", "u", "v", "w", "x", "y", "z">>

\* str.lower() and str.upper(), character by character
LowerChar(c) == IF \E i \in 1..26 : UpperCase[i] = c THEN LowerCase[CHOOSE i \in 1..26 : UpperCase[i] = c] ELSE c
UpperChar(c) == IF \E i \in 1..26 : LowerCase[i] = c THEN UpperCase[CHOOSE i \in 1..26 : LowerCase[i] = c] ELSE c
Lower(s) == [i \in 1..Len(s) |-> LowerChar(s[i])]
\* str.capitalize()
Capitalize(s) == [i \in 1..Len(s) |-> IF i = 1 THEN UpperChar(s[i]) ELSE LowerChar(s[i])]

RECURSIVE Split(_, _)
\* s.split(sep), sep one character
Split(s, sep) ==
    IF \A i \in 1..Len(s) : s[i] # sep THEN <<s>>
    ELSE LET k == CHOOSE i \in 1..Len(s) : s[i] = sep /\ \A j \in 1..(i - 1) : s[j] # sep
         IN  <<SubSeq(s, 1, k - 1)>> \o Split(SubSeq(s, k + 1, Len(s)), sep)

RECURSIVE LStrip(_)
LStrip(s) == IF s # <<>> /\ s[1] = " " THEN LStrip(Tail(s)) ELSE s
RECURSIVE RStrip(_)
RStrip(s) == IF s # <<>> /\ s[Len(s)] = " " THEN RStrip(SubSeq(s, 1, Len(s) - 1)) ELSE s
\* str.strip()
Strip(s) == RStrip(LStrip(s))

\* sub in s
Contains(s, sub) == \E i \in 1..(Len(s) - Len(sub) + 1) : SubSeq(s, i, i + Len(sub) - 1) = sub

RECURSIVE Replace(_, _, _)
\* s.replace(old, new): every non-overlapping occurrence, left to right
Replace(s, old, new) ==
    IF Len(s) < Len(old) THEN s
    ELSE IF SubSeq(s, 1, Len(old)) = old
         THEN new \o Replace(SubSeq(s, Len(old) + 1, Len(s)), old, new)
         ELSE <<s[1]>> \o Replace(Tail(s), old, new)

RECURSIVE DigitsValue(_)
DigitsValue(s) == IF s = <<>> THEN 0 ELSE 10 * DigitsValue(SubSeq(s, 1, Len(s) - 1)) + DigitVal(s[Len(s)])

\* float(s): surrounding whitespace ignored, then digits with at most one ".",
\* at least one digit; anything else raises ValueError
ParseFloat(s) ==
    LET b == Strip(s)
        dots == {i \in 1..Len(b) : b[i] = "."}
        digs == {i \in 1..Len(b) : b[i] \in Digits}
        ds == Replace(b, <<".">>, <<>>)
    IN  IF digs = {} \/ Cardinality(dots) > 1 \/ (dots \cup digs) # 1..Len(b)
        THEN Exc("ValueError", "could not convert string to float")
        ELSE LET frac == IF dots = {} THEN 0 ELSE Len(b) - (CHOOSE i \in dots : TRUE)
             IN  Norm(Num(DigitsValue(ds), 0 - frac))

----------------------------------------------------------------------------
(* data.py: convert_weight_to_grams *)

InvalidWeight == Exc("ValueError", "Invalid weight format")

\* value / 10^k or value * 10^k, or the ValueError of float() re-raised by line 45
Scaled(parsed, k) == IF parsed.t = "exc" THEN InvalidWeight ELSE Norm(Num(parsed.m, parsed.e + k))

\* convert_weight_to_grams with the plain-gram test moved ahead of "mg" and "kg"
convert_weight_plain_first(w) ==
    IF w.t # "str" THEN InvalidWeight
    ELSE LET s == Strip(Lower(w.s))
         IN  IF Contains(s, <<"mu", "g">>) \/ Contains(s, <<"u", "g">>)
             THEN Scaled(ParseFloat(Strip(Replace(Replace(s, <<"mu", "g">>, <<>>), <<"u", "g">>, <<>>))), 0 - 6)
             ELSE IF Contains(s, <<"g">>)
             THEN Scaled(ParseFloat(Strip(Replace(s, <<"g">>, <<>>))), 0)
             ELSE IF Contains(s, <<"m", "g">>)
             THEN Scaled(ParseFloat(Strip(Replace(s, <<"m", "g">>, <<>>))), 0 - 3)
             ELSE IF Contains(s, <<"k", "g">>)
             THEN Scaled(ParseFloat(Strip(Replace(s, <<"k", "g">>, <<>>))), 3)
             ELSE IF Contains(s, <<"t">>)
             THEN Scaled(ParseFloat(Strip(Replace(s, <<"t">>, <<>>))), 6)
             ELSE InvalidWeight

convert_weight_to_grams(w) ==
    IF w.t # "str" THEN InvalidWeight     \* no .lower(): AttributeError, caught at line 44
    ELSE LET s == Strip(Lower(w.s))
         IN  IF Contains(s, <<"mu", "g">>) \/ Contains(s, <<"u", "g">>)
             THEN Scaled(ParseFloat(Strip(Replace(Replace(s, <<"mu", "g">>, <<>>), <<"u", "g">>, <<>>))), 0 - 6)
             ELSE IF Contains(s, <<"m", "g">>)
             THEN Scaled(ParseFloat(Strip(Replace(s, <<"m", "g">>, <<>>))), 0 - 3)
             ELSE IF Contains(s, <<"k", "g">>)
             THEN Scaled(ParseFloat(Strip(Replace(s, <<"k", "g">>, <<>>))), 3)
             ELSE IF Contains(s, <<"g">>)
             THEN Scaled(ParseFloat(Strip(Replace(s, <<"g">>, <<>>))), 0)
             ELSE IF Contains(s, <<"t">>)
             THEN Scaled(ParseFloat(Strip(Replace(s, <<"t">>, <<>>))), 6)
             ELSE InvalidWeight

\* the characters weight strings are drawn from
WeightChars == {"0", "1", ".", " ", "u", "mu", "m", "k", "K", "g", "t"}

RECURSIVE StringsUpTo(_)
StringsUpTo(n) ==
    IF n = 0 THEN {<<>>}
    ELSE LET shorter == StringsUpTo(n - 1)
         IN  shorter \cup {Append(s, c) : s \in {x \in shorter : Len(x) = n - 1}, c \in WeightChars}

\* the weights the documentation names, beyond the enumerated ones
DocumentedWeights == {<<"1", "0", "0", "0", "m", "g">>, <<"f", "i", "v", "e">>, <<"1", ".", "1", "K", "g">>}

NotCalled == [t |-> "notcalled"]
\* no request is being handled
IDLE == "idle"
\* the value a call returned
Ret(v) == [t |-> "ret", v |-> v]

\* the parts of the state a specification does not exercise
convIdle == weight = None /\ grams = NotCalled
filterIdle == df = <<>> /\ ceilings = None /\ filtered = NotCalled /\ refiltered = NotCalled
genIdle == food_df = <<>> /\ num_combinations = 0 /\ items_per_combination = 0 /\ combinations = NotCalled
httpIdle == max_vals = None /\ endpoint = IDLE /\ request = None /\ calls = None /\ response = None /\ client = None

ConvInit ==
    /\ weight \in {Str(s) : s \in StringsUpTo(MaxLen) \cup DocumentedWeights} \cup {Num(2, 2), None}
    /\ grams = NotCalled

Convert ==
    /\ grams = NotCalled
    /\ grams' = convert_weight_to_grams(weight)
    /\ UNCHANGED <<weight, filterVars, genVars, httpVars>>

ConvNext == Convert

InitConvert == ConvInit /\ filterIdle /\ genIdle /\ httpIdle

SpecConvert == InitConvert /\ [][ConvNext]_vars

\* The unit suffixes in the priority order micro, milli, kilo, plain, tonne, each
\* with the power of ten that turns it into grams.
UnitTable == << [text |-> <<"mu", "g">>, exp |-> 0 - 6], [text |-> <<"u", "g">>, exp |-> 0 - 6],
               [text |-> <<"m", "g">>, exp |-> 0 - 3], [text |-> <<"k", "g">>, exp |-> 3],
               [text |-> <<"g">>, exp |-> 0], [text |-> <<"t">>, exp |-> 6] >>

HasUnit(s) == \E i \in DOMAIN UnitTable : Contains(s, UnitTable[i].text)
EndsWith(s, u) == Len(s) >= Len(u) /\ SubSeq(s, Len(s) - Len(u) + 1, Len(s)) = u
\* s is p followed by the suffix of unit i, and p holds no unit of its own
SuffixOf(s, i) ==
    /\ EndsWith(s, UnitTable[i].text)
    /\ ~HasUnit(SubSeq(s, 1, Len(s) - Len(UnitTable[i].text)))
    /\ \A j \in DOMAIN UnitTable :
          EndsWith(s, UnitTable[j].text) => Len(UnitTable[j].text) <= Len(UnitTable[i].text)
NumberPart(s, i) == SubSeq(s, 1, Len(s) - Len(UnitTable[i].text))

\* C9: on a string made of a numeric literal and one unit suffix,
\* convert_weight_to_grams returns the literal's value times the unit's gram
\* factor (so "1kg" is 1000 times "1g", and "1000mg" equals "1g"); it raises the
\* invalid-format ValueError when no unit matches or when what precedes the
\* suffix is not a number.
C9_ConvertUnitConsistent ==
    (grams # NotCalled /\ weight.t = "str") =>
        LET s == Strip(Lower(weight.s))
        IN  /\ ~HasUnit(s) => grams = InvalidWeight
            /\ \A i \in DOMAIN UnitTable :
                  SuffixOf(s, i) =>
                      LET value == ParseFloat(NumberPart(s, i))
                      IN  grams = IF value.t = "exc" THEN InvalidWeight
                                  ELSE NumMul(value, Num(1, UnitTable[i].exp))
            /\ weight.s = <<"1", "k", "g">> =>
                  grams = NumMul(Num(1000, 0), convert_weight_to_grams(Str(<<"1", "g">>)))
            /\ weight.s = <<"1", "0", "0", "0", "m", "g">> =>
                  grams = convert_weight_to_grams(Str(<<"1", "g">>))

C9_Witness ==
    /\ weight = Str(<<"1", "0", "0", "0", "m", "g">>)
    /\ grams = Num(1, 0)

----------------------------------------------------------------------------
(* data.py: filter_food *)

\* A DataFrame is the sequence of its rows; idx is the row's index label, which
\* boolean indexing and sample() keep.  The nutrient columns are numbers.
Row(i, cal, carb, fat, prot) ==
    [idx |-> i, calories |-> cal, carbohydrate |-> carb, fat |-> fat, proteins |-> prot]

\* column <= ceiling, as pandas compares
Leq(v, c) == ~NumLess(c, v)

\* filter_food without its protein ceiling
filter_food_no_protein(d, max_calories, max_carbohydrate, max_fat, max_protein) ==
    LET f1 == IF max_calories.t # "none"
              THEN SelectSeq(d, LAMBDA r : Leq(r.calories, max_calories)) ELSE d
        f2 == IF max_carbohydrate.t # "none"
              THEN SelectSeq(f1, LAMBDA r : Leq(r.carbohydrate, max_carbohydrate)) ELSE f1
    IN  IF max_fat.t # "none" THEN SelectSeq(f2, LAMBDA r : Leq(r.fat, max_fat)) ELSE f2

filter_food(d, max_calories, max_carbohydrate, max_fat, max_protein) ==
    LET f0 == d                                                      \* df.copy()
        f1 == IF max_calories.t # "none"
              THEN SelectSeq(f0, LAMBDA r : Leq(r.calories, max_calories)) ELSE f0
        f2 == IF max_carbohydrate.t # "none"
              THEN SelectSeq(f1, LAMBDA r : Leq(r.carbohydrate, max_carbohydrate)) ELSE f1
        f3 == IF max_fat.t # "none"
              THEN SelectSeq(f2, LAMBDA r : Leq(r.fat, max_fat)) ELSE f2
        f4 == IF max_protein.t # "none"
              THEN SelectSeq(f3, LAMBDA r : Leq(r.proteins, max_protein)) ELSE f3
    IN  f4

\* the values the nutrient columns and the ceilings are drawn from
Levels == {Num(1, 0), Num(2, 0)}
CeilingValues == Levels \cup {None}
Columns == {"calories", "carbohydrate", "fat", "proteins"}

RowsAt(i) == {Row(i, a, b, c, d) : a \in Levels, b \in Levels, c \in Levels, d \in Levels}

RECURSIVE TablesOfLen(_)
\* every table of n rows, indexed 1..n as read_csv does
TablesOfLen(n) ==
    IF n = 0 THEN {<<>>}
    ELSE {Append(t, r) : t \in TablesOfLen(n - 1), r \in RowsAt(n)}

Tables == UNION {TablesOfLen(n) : n \in 0..MaxRows}

FilterInit ==
    /\ df \in Tables
    /\ ceilings \in [Columns -> CeilingValues]
    /\ filtered = NotCalled
    /\ refiltered = NotCalled

\* filtered = filter_food(df, ...)
FilterFood ==
    /\ filtered = NotCalled
    /\ filtered' = Ret(filter_food(df, ceilings.calories, ceilings.carbohydrate, ceilings.fat, ceilings.proteins))
    /\ UNCHANGED <<df, ceilings, refiltered, convVars, genVars, httpVars>>

\* refiltered = filter_food(filtered, ...), the same ceilings
FilterAgain ==
    /\ filtered # NotCalled
    /\ refiltered = NotCalled
    /\ refiltered' = Ret(filter_food(filtered.v, ceilings.calories, ceilings.carbohydrate, ceilings.fat, ceilings.proteins))
    /\ UNCHANGED <<df, ceilings, filtered, convVars, genVars, httpVars>>

FilterNext == FilterFood \/ FilterAgain

InitFilter == FilterInit /\ convIdle /\ genIdle /\ httpIdle

SpecFilter == InitFilter /\ [][FilterNext]_vars

\* row r is within every ceiling that was supplied
WithinCeilings(r, c) == \A col \in Columns : c[col].t = "none" \/ ~NumLess(c[col], r[col])

\* C7: filter_food returns exactly the rows of df whose calories, carbohydrate,
\* fat and proteins are each <= the supplied ceiling (an omitted ceiling does not
\* constrain), filtering the result again returns the same rows, and df itself
\* is never changed.
C7_FilterExactIdempotent ==
    /\ [](/\ filtered # NotCalled =>
                filtered.v = SelectSeq(df, LAMBDA r : WithinCeilings(r, ceilings))
          /\ refiltered # NotCalled => refiltered.v = filtered.v)
    /\ [][df' = df]_vars

C7_Witness ==
    /\ refiltered # NotCalled
    /\ Len(refiltered.v) = 1
    /\ Len(df) = 2
    /\ ceilings.calories = None
    /\ ceilings.proteins # None

----------------------------------------------------------------------------
(* data.py: generate_combinations *)

Min(a, b) == IF a < b THEN a ELSE b

\* sample() drawing with replacement
SampleWithReplacement(d, n) == {[i \in 1..n |-> d[p[i]]] : p \in [1..n -> 1..Len(d)]}

\* DataFrame.sample(n): n rows at distinct positions, in any order
Sample(d, n) ==
    {[i \in 1..n |-> d[p[i]]] :
        p \in {q \in [1..n -> 1..Len(d)] : \A i, j \in 1..n : i # j => q[i] # q[j]}}

\* every list the loop of lines 71-74 can build
generate_combinations(d, n, k) == [1..n -> Sample(d, Min(Len(d), k))]

\* the nutrition table of n rows used where the rows' values do not matter
NutritionTable(n) == [i \in 1..n |-> Row(i, Num(1 + (i % 2), 0), Num(1, 0), Num(2, 0), Num(1, 0))]

GenInit ==
    /\ food_df \in {NutritionTable(n) : n \in 0..(MaxRows + 1)}
    /\ num_combinations \in 0..MaxCombos
    /\ items_per_combination \in 0..MaxItems
    /\ combinations = NotCalled

Generate ==
    /\ combinations = NotCalled
    /\ \E c \in generate_combinations(food_df, num_combinations, items_per_combination) :
          combinations' = Ret(c)
    /\ UNCHANGED <<food_df, num_combinations, items_per_combination, convVars, filterVars, httpVars>>

GenNext == Generate

InitGen == GenInit /\ convIdle /\ filterIdle /\ httpIdle

SpecGen == InitGen /\ [][GenNext]_vars

\* C8: generate_combinations(df, n, k) returns exactly n combinations, each of
\* min(len(df), k) rows of df, no row twice within one combination.
C8_CombinationsShape ==
    combinations # NotCalled =>
        /\ Len(combinations.v) = num_combinations
        /\ \A c \in 1..Len(combinations.v) :
              LET combo == combinations.v[c]
              IN  /\ Len(combo) = Min(Len(food_df), items_per_combination)
                  /\ \A i \in 1..Len(combo) : \E j \in 1..Len(food_df) : combo[i] = food_df[j]
                  /\ \A i, j \in 1..Len(combo) : i # j => combo[i].idx # combo[j].idx

\* two combinations of two rows out of three that share a row
C8_Witness ==
    /\ combinations # NotCalled
    /\ Len(food_df) = 3
    /\ Len(combinations.v) = 2
    /\ Len(combinations.v[1]) = 2
    /\ combinations.v[1][1] = combinations.v[2][2]
    /\ combinations.v[1][2] # combinations.v[2][1]

\* string constants of the handlers
ERROR_PREFIX == <<"e", "r", "r", "o", "r", ":", " ">>
CANNOT_CONCAT == <<"c", "a", "n", " ", "o", "n", "l", "y", " ", "c", "o", "n", "c", "a", "t", "e", "n", "a", "t", "e", " ", "s", "t", "r">>
KCAL == <<"k", "c", "a", "l">>
HUNDRED_G == <<"1", "0", "0", " ", "g">>
RICE == <<"r", "i", "c", "e">>
EXERCISE_LABEL == <<"j", "o", "g", " ", "o", "r", " ", "w", "a", "l", "k", ",", " ", "Y", "o", "g", "a", ".">>
ZERO_G == <<"0", " ", "g">>
SNIPPET_G == <<"1", ",", "2", " ", "g">>
SNIPPET_KCAL == <<"2", "0", " ", "k", "c", "a", "l">>
TIMED_OUT == <<"t", "i", "m", "e", "d", " ", "o", "u", "t">>
MALE == <<"m", "a", "l", "e">>
FEMALE == <<"f", "e", "m", "a", "l", "e">>
NEVER == <<"n", "e", "v", "e", "r">>
CURRENT == <<"c", "u", "r", "r", "e", "n", "t">>
FORMER == <<"f", "o", "r", "m", "e", "r">>
EVER == <<"e", "v", "e", "r">>

----------------------------------------------------------------------------
(* main.py: the responses of the handlers *)

\* return jsonify(body), status
Json(status, body) == [status |-> status, kind |-> "json", body |-> body]
\* an exception no handler catches: Flask answers 500 with its HTML error page
Uncaught(exc) == [status |-> 500, kind |-> "html", body |-> [exception |-> exc]]

\* x.lower() on a value that is no str (None, a number)
NoLower == Exc("AttributeError", "object has no attribute 'lower'")

\* which collaborators a request reached, with what each returned or raised
NoCalls ==
    [features |-> NotCalled, scaler |-> NotCalled, model |-> NotCalled, regressor |-> NotCalled,
     classifier |-> NotCalled,
     encoder |-> NotCalled, files |-> NotCalled, yolo |-> NotCalled, convert |-> NotCalled,
     scrape |-> NotCalled, fetch |-> NotCalled]

Raises(out) == out.t = "exc"

----------------------------------------------------------------------------
(* main.py: /diabetes_predict *)

\* probabilities are counted in units of 10^-5; ProbUnit is 1.0
ProbUnit == 100000
\* the threshold of line 79, in percent
ProneAbove == 18

\* round(prediction_prob * 100, 2): the percentage in hundredths.  A decimal tie
\* is decided by the binary value of the float, so either neighbour can result.
RoundPercent(p) ==
    LET q == p \div 10
        r == p % 10
    IN  IF r < 5 THEN {Num(q, 0 - 2)}
        ELSE IF r > 5 THEN {Num(q + 1, 0 - 2)}
        ELSE {Num(q, 0 - 2), Num(q + 1, 0 - 2)}

PRONE == "The patient may be prone to diabetes. Please consult a doctor."
NOT_PRONE == "Patients may not be prone to diabetes."

\* the note with the threshold taken as >= 18
DiabetesNoteAtLeast(pct) == IF ~NumLess(pct, Num(ProneAbove, 0)) THEN PRONE ELSE NOT_PRONE

\* line 79
DiabetesNote(pct) == IF NumLess(Num(ProneAbove, 0), pct) THEN PRONE ELSE NOT_PRONE

\* line 65: the dict literal, whose last key `not "current"` is False
SmokingCode(s) ==
    IF s = NEVER THEN Num(0, 0) ELSE IF s = CURRENT THEN Num(1, 0) ELSE IF s = FORMER THEN Num(2, 0)
    ELSE IF s = EVER THEN Num(3, 0) ELSE Num(0, 0)

\* 1 if gender.lower() == 'male' else 0
GenderCode(g) == IF Lower(g.s) = MALE THEN Num(1, 0) ELSE Num(0, 0)

\* The handler, lines 54-84.  scaler_out and model_out are what
\* diabetes_scaler.transform and diabetes_model.predict do when reached; pct is
\* the rounded percentage (one of RoundPercent of the probability).
diabetes_predict(req, scaler_out, model_out, pct) ==
    IF None \in {req.gender, req.age, req.heart_disease, req.smoking_history, req.bmi}
    THEN [calls |-> NoCalls, response |-> Json(400, [error |-> "all fields must be filled"])]
    ELSE IF req.gender.t # "str" \/ req.smoking_history.t # "str"
    THEN [calls |-> NoCalls, response |-> Uncaught(NoLower)]
    ELSE LET features == <<GenderCode(req.gender), req.age, req.heart_disease,
                           SmokingCode(Lower(req.smoking_history.s)), req.bmi>>
             reached == [NoCalls EXCEPT !.features = Ret(features), !.scaler = scaler_out]
         IN  IF Raises(scaler_out)
             THEN [calls |-> reached, response |-> Json(500, [error |-> scaler_out.msg])]
             ELSE IF Raises(model_out)
             THEN [calls |-> [reached EXCEPT !.model = model_out],
                   response |-> Json(500, [error |-> model_out.msg])]
             ELSE [calls |-> [reached EXCEPT !.model = model_out],
                   response |-> Json(200, [percentage |-> Round2(pct), note |-> DiabetesNote(pct)])]

----------------------------------------------------------------------------
(* main.py: /exercise_recommendation *)

\* lines 122-126: the decoded label split at commas, each piece cleaned
ExerciseCategories(label) ==
    LET parts == Split(label, ",")
    IN  [i \in 1..Len(parts) |->
            Replace(Capitalize(Strip(Replace(parts[i], <<"o", "r">>, <<" ">>))), <<".">>, <<>>)]

\* The handler, lines 97-136.  regress_out, classify_out and decode_out are what
\* exercise_model.predict, classifier.predict and label_encoder.inverse_transform
\* do when reached.
exercise_recomendation(req, scaler_out, regress_out, classify_out, decode_out) ==
    IF req.gender.t # "str"
    THEN [calls |-> NoCalls, response |-> Uncaught(NoLower)]              \* line 105, before the check
    ELSE IF None \in {req.age, req.height, req.diabetes, req.bmi}
    THEN [calls |-> NoCalls, response |-> Json(400, [error |-> "all fields must be filled"])]
    ELSE LET features == <<GenderCode(req.gender), req.age, req.height, req.diabetes, req.bmi>>
             reached == [NoCalls EXCEPT !.features = Ret(features), !.scaler = scaler_out]
         IN  IF Raises(scaler_out)
             THEN [calls |-> reached, response |-> Uncaught(scaler_out)]  \* line 113, outside the try
             ELSE IF Raises(regress_out)
             THEN [calls |-> [reached EXCEPT !.regressor = regress_out],
                   response |-> Json(500, [error |-> regress_out.msg])]
             ELSE IF Raises(classify_out)
             THEN [calls |-> [reached EXCEPT !.regressor = regress_out, !.classifier = classify_out],
                   response |-> Json(500, [error |-> classify_out.msg])]
             ELSE IF Raises(decode_out)
             THEN [calls |-> [reached EXCEPT !.regressor = regress_out, !.classifier = classify_out,
                                             !.encoder = decode_out],
                   response |-> Json(500, [error |-> decode_out.msg])]
             ELSE [calls |-> [reached EXCEPT !.regressor = regress_out, !.classifier = classify_out,
                                             !.encoder = decode_out],
                   response |-> Json(200, [calories_burned |-> regress_out.v[1],
                                           exercise_categories |-> ExerciseCategories(decode_out.v),
                                           exercise_duration |-> Round2(regress_out.v[2])])]

----------------------------------------------------------------------------
(* main.py: /food_recommendation *)

\* generate_combinations' defaults, data.py line 66
DefaultCombinations == 2
DefaultItems == 5

\* nutrition.csv as read at line 166
NutritionCsv == NutritionTable(MaxRows)

\* float(x): a number as it is, a str parsed, anything else a TypeError
ToFloat(x) ==
    IF x.t = "num" THEN x
    ELSE IF x.t = "str" THEN ParseFloat(x.s)
    ELSE Exc("TypeError", "float() argument must be a string or a real number")

\* lines 155-156: 1 if float(diagnoses) / 100 >= 0.18 else 0
Diagnosis(x) == IF ~NumLess(NumMul(x, Num(1, 0 - 2)), Num(18, 0 - 2)) THEN 1 ELSE 0

\* The handler, lines 148-189.  files_out is whether both data files exist;
\* diabetes_combinations and normal_combinations are the two lists drawn at
\* lines 174-175.
food_recommendation(req, files_out, diabetes_combinations, normal_combinations) ==
    IF req.diabetes_percentage = None
    THEN [calls |-> NoCalls, response |-> Json(400, [error |-> "The 'diabetes' field must be provided"])]
    ELSE IF Raises(ToFloat(req.diabetes_percentage))
    THEN [calls |-> NoCalls,
          response |-> Json(400, [error |-> "The 'diabetes' field must be a numeric value"])]
    ELSE LET diagnoses == Diagnosis(ToFloat(req.diabetes_percentage))
             reached == [NoCalls EXCEPT !.files = Ret(files_out)]
         IN  IF ~files_out
             THEN [calls |-> reached, response |-> Json(500, [error |-> "Required data files not found"])]
             ELSE [calls |-> reached,
                   response |-> Json(200, [diabetes |-> diagnoses = 1,
                                           food_recommendation |->
                                               IF diagnoses = 1 THEN diabetes_combinations
                                               ELSE normal_combinations])]

----------------------------------------------------------------------------
(* main.py: /scan-food *)

\* The handler, lines 201-216.  yolo_out is what load_yolo_model does when reached.
food_detection(req, yolo_out) ==
    IF req.image = None
    THEN [calls |-> NoCalls, response |-> Json(400, [error |-> "The 'image' field must be provided"])]
    ELSE IF Raises(yolo_out)
    THEN [calls |-> [NoCalls EXCEPT !.yolo = yolo_out], response |-> Json(500, [error |-> yolo_out.msg])]
    ELSE [calls |-> [NoCalls EXCEPT !.yolo = yolo_out], response |-> Json(200, [objects |-> yolo_out.v])]

----------------------------------------------------------------------------
(* data.py: fetch_nutritions, safe_convert;  main.py: /food_nutritions *)

\* line 110: the str f"error: {e}", as its characters
ErrorString(msg) == ERROR_PREFIX \o msg

\* fetch_nutritions, lines 82-110.  scrape_out is what the four requests and
\* their parsing do: Ret(<<proteins, calories, carbohydrates, fat>>), the texts
\* extract_value found, or the exception one of them raised.  A name that is
\* no str raises TypeError at line 83.
fetch_nutritions(prediction, scrape_out) ==
    IF prediction.t # "str" THEN Str(ErrorString(CANNOT_CONCAT))
    ELSE IF Raises(scrape_out) THEN Str(ErrorString(scrape_out.msg))
    ELSE Tuple(scrape_out.v)

\* safe_convert, lines 137-141
safe_convert(value, unit) ==
    LET parsed == ParseFloat(Replace(Strip(Replace(value, unit, <<>>)), <<",">>, <<".">>))
    IN  IF Raises(parsed) THEN Num(0, 0) ELSE parsed

\* the items iterating over a tuple or a str yields
Items(x) == IF x.t = "tuple" THEN x.items ELSE [i \in 1..Len(x.s) |-> <<x.s[i]>>]

\* a, b, c, d, e = x: x must yield exactly five items
Unpack5(x) ==
    IF Len(Items(x)) < 5 THEN Exc("ValueError", "not enough values to unpack (expected 5)")
    ELSE IF Len(Items(x)) > 5 THEN Exc("ValueError", "too many values to unpack (expected 5)")
    ELSE Ret(Items(x))

FOOD_NOT_FOUND == "Food not found"
SUITABLE == "Suitable for diabetes"
NOT_RECOMMENDED == "Not recommended for diabetes"

\* lines 268-276
Alert(proteins, calories, carbohydrates, fat, sugar, maxes) ==
    IF /\ carbohydrates = Num(0, 0) /\ calories = Num(0, 0) /\ proteins = Num(0, 0)
       /\ fat = Num(0, 0) /\ sugar = Num(0, 0)
    THEN FOOD_NOT_FOUND
    ELSE IF /\ NumLess(carbohydrates, maxes.carbohydrate) /\ NumLess(calories, maxes.calories)
            /\ NumLess(proteins, maxes.proteins) /\ NumLess(fat, maxes.fat)
    THEN SUITABLE
    ELSE NOT_RECOMMENDED

\* "{:.2f} unit".format(x)
Format2(x, unit) == [value |-> Round2(x), unit |-> unit]

\* "100 g" if volume is None else f"{volume}"
VolumeText(volume) == IF volume = None THEN Str(HUNDRED_G) ELSE volume

\* not food_name: None, the empty str, the number 0
Falsy(x) == x = None \/ x = Str(<<>>) \/ (x.t = "num" /\ x.m = 0)

\* The handler, lines 231-286.
food_clasification(req, maxes, scrape_out) ==
    IF Falsy(req.name)
    THEN [calls |-> NoCalls, response |-> Json(400, [error |-> "'food_name' must be provided."])]
    ELSE LET converted == IF req.volume # None THEN convert_weight_to_grams(req.volume) ELSE NotCalled
             c1 == [NoCalls EXCEPT !.convert = converted]
         IN  IF Raises(converted)
             THEN [calls |-> c1, response |-> Uncaught(converted)]        \* line 239, outside the try
             ELSE LET fetched == fetch_nutritions(req.name, scrape_out)
                      c2 == [c1 EXCEPT !.scrape = IF req.name.t = "str" THEN scrape_out ELSE NotCalled,
                                        !.fetch = Ret(fetched)]
                      unpacked == Unpack5(fetched)                        \* line 242
                  IN  IF Raises(unpacked)
                      THEN [calls |-> c2, response |-> Json(500, [error |-> unpacked.msg])]
                      ELSE LET volume_convert == IF req.volume # None
                                                 THEN NumMul(converted, Num(1, 0 - 2))
                                                 ELSE Num(1, 0)
                               proteins == NumMul(safe_convert(unpacked.v[1], <<"g">>), volume_convert)
                               calories == NumMul(safe_convert(unpacked.v[2], KCAL), volume_convert)
                               carbohydrates == NumMul(safe_convert(unpacked.v[3], <<"g">>), volume_convert)
                               fat == NumMul(safe_convert(unpacked.v[4], <<"g">>), volume_convert)
                               sugar == NumMul(safe_convert(unpacked.v[5], <<"g">>), volume_convert)
                           IN  [calls |-> c2,
                                response |-> Json(200,
                                    [food_name |-> req.name,
                                     nutrition_info |->
                                         [proteins |-> Format2(proteins, "g"),
                                          calories |-> Format2(calories, "kcal"),
                                          carbohydrates |-> Format2(carbohydrates, "g"),
                                          fat |-> Format2(fat, "g"),
                                          sugar |-> Format2(sugar, "g")],
                                     alert |-> Alert(proteins, calories, carbohydrates, fat, sugar, maxes),
                                     volume |-> VolumeText(req.volume)])]

----------------------------------------------------------------------------
(* The service: requests arrive one at a time, each handled to its response *)

\* what the JSON fields of the requests are drawn from
GenderValues == {None, Str(MALE), Str(<<"M", "a", "l", "e">>), Str(FEMALE), Num(1, 0)}
SmokingValues == {None, Str(NEVER), Str(<<"F", "o", "r", "m", "e", "r">>), Str(EVER), Str(<<"n", "o">>)}
NumberValues == {None, Num(3, 1)}
PercentageValues ==
    {None, Str(<<"a", "b", "c">>), Str(<<"2", "0">>), [t |-> "list"],
     Num(0, 0), Num(1799, 0 - 2), Num(ProneAbove, 0), Num(1801, 0 - 2), Num(1, 2)}
ImageValues == {None, Str(<<"u", "r", "l">>)}
NameValues == {None, Str(<<>>), Str(RICE), Num(7, 0)}
VolumeValues ==
    {None, Str(<<"2", "0", "0", "g">>), Str(<<"1", "k", "g">>), Str(<<"f", "i", "v", "e">>), Num(2, 2)}

\* what the collaborators can do
ScalerOutcomes == {Ret("scaled"), Exc("ValueError", "could not convert string to float")}
Probabilities ==
    (0..ProbWindow) \cup ((ProneAbove * 1000 - ProbWindow)..(ProneAbove * 1000 + ProbWindow))
        \cup ((ProbUnit - ProbWindow)..(ProbUnit + ProbWindow))
ModelOutcomes == {Ret(p) : p \in Probabilities} \cup {Exc("RuntimeError", "predict failed")}
RegressorOutcomes == {Ret(<<Num(2505, 0 - 1), Num(30125, 0 - 3)>>), Exc("RuntimeError", "predict failed")}
ClassifierOutcomes == {Ret(1), Exc("RuntimeError", "classify failed")}
EncoderOutcomes == {Ret(EXERCISE_LABEL), Exc("ValueError", "y contains previously unseen labels")}
YoloOutcomes == {Ret(<<>>), Ret(<<"rice">>), Exc("RuntimeError", "cannot identify image file")}
Snippets == {ZERO_G, SNIPPET_G, SNIPPET_KCAL}
ScrapeOutcomes ==
    {Ret(<<a, b, c, d>>) : a \in Snippets, b \in Snippets, c \in Snippets, d \in Snippets}
        \cup {Exc("ConnectionError", TIMED_OUT), Exc("Exception", <<>>)}

\* the maxima of diabet_food_recomendation_clean.csv, lines 32-36
MaxChoices ==
    {[col \in Columns |-> l] : l \in Levels}
        \cup {[calories |-> Num(2, 0), carbohydrate |-> Num(1, 0), fat |-> Num(2, 0), proteins |-> Num(2, 0)]}

HttpInit ==
    /\ max_vals \in MaxChoices
    /\ endpoint = IDLE
    /\ request = None
    /\ calls = None
    /\ response = None
    /\ client = None

\* the request is answered: its handler's result becomes the state
Answer(route, req, result) ==
    /\ endpoint' = route
    /\ request' = req
    /\ calls' = result.calls
    /\ response' = result.response
    /\ UNCHANGED <<max_vals, convVars, filterVars, genVars>>

\* GET /
Index ==
    /\ endpoint = IDLE
    /\ Answer("/", None, [calls |-> NoCalls,
                          response |-> [status |-> 200, kind |-> "text", body |-> "mau ngapain hayo"]])
    /\ UNCHANGED client

DiabetesPredict ==
    /\ endpoint = IDLE
    /\ \E gender \in GenderValues, age \in NumberValues, heart_disease \in NumberValues,
          smoking_history \in SmokingValues, bmi \in NumberValues,
          scaler_out \in ScalerOutcomes, model_out \in ModelOutcomes :
           \E pct \in IF Raises(model_out) THEN {Num(0, 0)} ELSE RoundPercent(model_out.v) :
               LET req == [gender |-> gender, age |-> age, heart_disease |-> heart_disease,
                           smoking_history |-> smoking_history, bmi |-> bmi]
                   result == diabetes_predict(req, scaler_out, model_out, pct)
               IN  /\ Answer("/diabetes_predict", req, result)
                   \* the caller keeps the answer of a successful prediction
                   /\ client' = IF result.response.status = 200 THEN result.response.body ELSE client

ExerciseRecommendation ==
    /\ endpoint = IDLE
    /\ \E gender \in GenderValues, age \in NumberValues, height \in NumberValues,
          diabetes \in NumberValues, bmi \in NumberValues, scaler_out \in ScalerOutcomes,
          regress_out \in RegressorOutcomes, classify_out \in ClassifierOutcomes,
          decode_out \in EncoderOutcomes :
           LET req == [gender |-> gender, age |-> age, height |-> height, diabetes |-> diabetes, bmi |-> bmi]
           IN  /\ Answer("/exercise_recommendation", req,
                         exercise_recomendation(req, scaler_out, regress_out, classify_out, decode_out))
               /\ UNCHANGED client

FoodRecommendation ==
    /\ endpoint = IDLE
    /\ \E diabetes_percentage \in PercentageValues \cup (IF client = None THEN {} ELSE {client.percentage}),
          files_out \in BOOLEAN :
           LET req == [diabetes_percentage |-> diabetes_percentage]
               diabetes_food == filter_food(NutritionCsv, max_vals.calories, max_vals.carbohydrate,
                                            max_vals.fat, max_vals.proteins)
               normal_food == NutritionCsv
           IN  \E diabetes_combinations \in generate_combinations(diabetes_food, DefaultCombinations, DefaultItems),
                  normal_combinations \in generate_combinations(normal_food, DefaultCombinations, DefaultItems) :
                   /\ Answer("/food_recommendation", req,
                             food_recommendation(req, files_out, diabetes_combinations, normal_combinations))
                   /\ UNCHANGED client

FoodDetection ==
    /\ endpoint = IDLE
    /\ \E image \in ImageValues, yolo_out \in YoloOutcomes :
           /\ Answer("/scan-food", [image |-> image], food_detection([image |-> image], yolo_out))
           /\ UNCHANGED client

FoodNutritions ==
    /\ endpoint = IDLE
    /\ \E name \in NameValues, volume \in VolumeValues, scrape_out \in ScrapeOutcomes :
           LET req == [name |-> name, volume |-> volume]
           IN  /\ Answer("/food_nutritions", req, food_clasification(req, max_vals, scrape_out))
               /\ UNCHANGED client

\* the response is sent and the request's context is gone: nothing of it stays
Finish ==
    /\ endpoint # IDLE
    /\ endpoint' = IDLE
    /\ request' = None
    /\ calls' = None
    /\ response' = None
    /\ UNCHANGED <<max_vals, client, convVars, filterVars, genVars>>

HttpNext ==
    \/ Index
    \/ DiabetesPredict
    \/ ExerciseRecommendation
    \/ FoodRecommendation
    \/ FoodDetection
    \/ FoodNutritions
    \/ Finish

InitHttp == HttpInit /\ convIdle /\ filterIdle /\ genIdle

Spec == InitHttp /\ [][HttpNext]_vars

----------------------------------------------------------------------------
(* The claims about the endpoints *)

PostRoutes ==
    {"/diabetes_predict", "/exercise_recommendation", "/food_recommendation", "/scan-food",
     "/food_nutritions"}

\* the fields each POST endpoint requires
RequiredFields(route) ==
    IF route = "/diabetes_predict" THEN {"gender", "age", "heart_disease", "smoking_history", "bmi"}
    ELSE IF route = "/exercise_recommendation" THEN {"gender", "age", "height", "diabetes", "bmi"}
    ELSE IF route = "/food_recommendation" THEN {"diabetes_percentage"}
    ELSE IF route = "/scan-food" THEN {"image"}
    ELSE {"name"}

\* C1: on every POST endpoint a request that omits a required field is answered
\* 400, never 500.
C1_MissingFieldIs400 ==
    (endpoint \in PostRoutes /\ \E f \in RequiredFields(endpoint) : request[f] = None)
        => response.status = 400

\* C2: in the prediction endpoints an exception raised by the scaler's transform
\* or by a model's predict is caught and answered 500 with a JSON body carrying
\* the exception's message.
C2_InferenceErrorsCaught ==
    endpoint \in {"/diabetes_predict", "/exercise_recommendation"} =>
        \A c \in {"scaler", "model", "regressor", "classifier"} :
            Raises(calls[c]) => response = Json(500, [error |-> calls[c].msg])

\* C3: /diabetes_predict with every required field present and a model that
\* returned a probability in [0, 1] answers a percentage in [0, 100], with the
\* "may be prone" note exactly when the percentage is above 18 and the "not
\* prone" note exactly when it is 18 or less.
C3_PercentageAndNote ==
    (/\ endpoint = "/diabetes_predict"
     /\ \A f \in RequiredFields(endpoint) : request[f] # None
     /\ calls.model.t = "ret"
     /\ calls.model.v \in 0..ProbUnit)
        => /\ response.status = 200
           /\ ~NumLess(response.body.percentage, Num(0, 0))
           /\ ~NumLess(Num(100, 0), response.body.percentage)
           /\ response.body.note = PRONE <=> NumLess(Num(18, 0), response.body.percentage)
           /\ response.body.note = NOT_PRONE <=> ~NumLess(Num(18, 0), response.body.percentage)

\* a probability of 0.18 answered as 18.0 percent, not prone
C3_Witness ==
    /\ endpoint = "/diabetes_predict"
    /\ response.status = 200
    /\ calls.model = Ret(18000)
    /\ response.body.percentage = Num(18, 0)
    /\ response.body.note = NOT_PRONE

\* what the texts fetch_nutritions found resolve to, scaled by the volume: the
\* four looked-up nutrients and sugar, which is not looked up; all zero when the
\* lookup failed
Scale(volume) == IF volume = None THEN Num(1, 0) ELSE NumMul(convert_weight_to_grams(volume), Num(1, 0 - 2))
Baseline(scrape_out) ==
    IF Raises(scrape_out)
    THEN [proteins |-> Num(0, 0), calories |-> Num(0, 0), carbohydrates |-> Num(0, 0),
          fat |-> Num(0, 0), sugar |-> Num(0, 0)]
    ELSE [proteins |-> safe_convert(scrape_out.v[1], <<"g">>),
          calories |-> safe_convert(scrape_out.v[2], KCAL),
          carbohydrates |-> safe_convert(scrape_out.v[3], <<"g">>),
          fat |-> safe_convert(scrape_out.v[4], <<"g">>),
          sugar |-> Num(0, 0)]
Nutrients == {"proteins", "calories", "carbohydrates", "fat", "sugar"}
Resolved(scrape_out, volume) == [n \in Nutrients |-> NumMul(Baseline(scrape_out)[n], Scale(volume))]

\* a /food_nutritions request with a name, a volume that is absent or a valid
\* weight, and a lookup that was made
NutritionLookup ==
    /\ endpoint = "/food_nutritions"
    /\ request.name.t = "str"
    /\ request.name.s # <<>>
    /\ ~Raises(calls.convert)
    /\ calls.scrape # NotCalled

\* C4: /food_nutritions with a non-empty name answers the alert "Food not
\* found" when all five nutrients resolve to 0, "Suitable for diabetes" when
\* every value is below the dataset's maximum, and "Not recommended for
\* diabetes" otherwise.
C4_NutritionAlert ==
    NutritionLookup =>
        LET v == Resolved(calls.scrape, request.volume)
        IN  /\ response.status = 200
            /\ response.body.alert =
                  IF \A n \in Nutrients : v[n] = Num(0, 0) THEN FOOD_NOT_FOUND
                  ELSE IF /\ NumLess(v.carbohydrates, max_vals.carbohydrate)
                          /\ NumLess(v.calories, max_vals.calories)
                          /\ NumLess(v.proteins, max_vals.proteins)
                          /\ NumLess(v.fat, max_vals.fat)
                  THEN SUITABLE
                  ELSE NOT_RECOMMENDED

\* the numbers of the answer's nutrition_info
Answered(n) == response.body.nutrition_info[n].value

\* C5: /food_nutritions without a volume scales the looked-up values by 1 and
\* reports the volume "100 g"; with the volume "200g" every value is twice the
\* 100 g baseline.
C5_VolumeScaling ==
    (NutritionLookup /\ ~Raises(calls.scrape)) =>
        /\ request.volume = None =>
              /\ response.status = 200
              /\ response.body.volume = Str(HUNDRED_G)
              /\ \A n \in Nutrients : Answered(n) = Round2(Baseline(calls.scrape)[n])
        /\ request.volume = Str(<<"2", "0", "0", "g">>) =>
              /\ response.status = 200
              /\ \A n \in Nutrients : Answered(n) = Round2(NumMul(Baseline(calls.scrape)[n], Num(2, 0)))

\* C6: when the scraping inside fetch_nutritions raises, /food_nutritions still
\* answers successfully, with zero nutrient values.
C6_ScrapeFailureSwallowed ==
    (NutritionLookup /\ Raises(calls.scrape)) =>
        /\ response.status = 200
        /\ \A n \in Nutrients : Answered(n) = Num(0, 0)

\* C10: the two endpoints agree on the 18% threshold: a percentage that
\* /diabetes_predict answered, fed to /food_recommendation, gives diabetes = true
\* exactly when /diabetes_predict gave the "may be prone" note.
C10_ThresholdsAgree ==
    (/\ endpoint = "/food_recommendation"
     /\ client # None
     /\ request.diabetes_percentage = client.percentage
     /\ response.status = 200)
        => (response.body.diabetes <=> client.note = PRONE)

====
